---------------------------- MODULE Spec2Model ----------------------------
(***************************************************************************)
(* A model of the chess engine of assapir/chess: the Board (squares, turn, *)
(* transposition table), pseudo-legal move generation, the static          *)
(* evaluator, quiescence search, minimax with alpha-beta, find_best_move,  *)
(* make_move and is_checkmate, and the game loop of main.                  *)
(***************************************************************************)
EXTENDS Integers, Sequences, FiniteSets, TLC

(* ----------------------------- value types ----------------------------- *)

\* lib.rs: enum Color; Option<Color> adds "None".
White == "White"
Black == "Black"
None == "None"
Color == {White, Black}

\* piece.rs: enum Piece.
King == "King"
Queen == "Queen"
Rook == "Rook"
Bishop == "Bishop"
Knight == "Knight"
Pawn == "Pawn"
Empty == "Empty"
Piece == {King, Queen, Rook, Bishop, Knight, Pawn, Empty}

\* The board is 8 x 8 (board.rs: [[Square; 8]; 8]); rows and columns are 0..7.
BOARD_SIZE == 8
Idx == 0 .. (BOARD_SIZE - 1)

\* i32::MIN and i32::MAX.
I32_MAX == 2147483647
I32_MIN == (-I32_MAX) - 1

\* Unary minus on i32 as the release build computes it (two's complement:
\* -i32::MIN wraps to i32::MIN).
neg_i32(x) == IF x = I32_MIN THEN I32_MIN ELSE 0 - x

max_i32(a, b) == IF a >= b THEN a ELSE b
min_i32(a, b) == IF a <= b THEN a ELSE b

\* The stand-in for usize::MAX: a negative isize cast to usize wraps to a
\* value far above the board size (here the largest integer TLC has).
USIZE_MAX == 2147483647
as_usize(x) == IF x >= 0 THEN x ELSE USIZE_MAX + (x + 1)

\* lib.rs: Square::new, Position, Move.
Square_new(piece, color) == [piece |-> piece, color |-> color]
Position(row, col) == [row |-> row, col |-> col]
Move(from, to, piece, captured) ==
  [from |-> from, to |-> to, piece |-> piece, captured |-> captured, score |-> 0]

(* ------------------------------ piece.rs ------------------------------- *)

PAWN_TABLE ==
  << <<0, 0, 0, 0, 0, 0, 0, 0>>,
     <<5, 5, 5, 5, 5, 5, 5, 5>>,
     <<1, 1, 2, 3, 3, 2, 1, 1>>,
     <<0, 0, 0, 2, 2, 0, 0, 0>>,
     <<0, 0, 0, 1, 1, 0, 0, 0>>,
     <<1, 1, 1, -1, -1, 1, 1, 1>>,
     <<1, 2, 2, -2, -2, 2, 2, 1>>,
     <<0, 0, 0, 0, 0, 0, 0, 0>> >>

KNIGHT_TABLE ==
  << <<-5, -4, -3, -3, -3, -3, -4, -5>>,
     <<-4, -2, 0, 0, 0, 0, -2, -4>>,
     <<-3, 0, 1, 1, 1, 1, 0, -3>>,
     <<-3, 0, 1, 2, 2, 1, 0, -3>>,
     <<-3, 0, 1, 2, 2, 1, 0, -3>>,
     <<-3, 0, 1, 1, 1, 1, 0, -3>>,
     <<-4, -2, 0, 0, 0, 0, -2, -4>>,
     <<-5, -4, -3, -3, -3, -3, -4, -5>> >>

BISHOP_TABLE ==
  << <<-2, -1, -1, -1, -1, -1, -1, -2>>,
     <<-1, 0, 0, 0, 0, 0, 0, -1>>,
     <<-1, 0, 0, 1, 1, 0, 0, -1>>,
     <<-1, 0, 1, 1, 1, 1, 0, -1>>,
     <<-1, 0, 1, 1, 1, 1, 0, -1>>,
     <<-1, 0, 0, 1, 1, 0, 0, -1>>,
     <<-1, 0, 0, 0, 0, 0, 0, -1>>,
     <<-2, -1, -1, -1, -1, -1, -1, -2>> >>

ROOK_TABLE ==
  << <<0, 0, 0, 0, 0, 0, 0, 0>>,
     <<1, 2, 2, 2, 2, 2, 2, 1>>,
     <<-1, 0, 0, 0, 0, 0, 0, -1>>,
     <<-1, 0, 0, 0, 0, 0, 0, -1>>,
     <<-1, 0, 0, 0, 0, 0, 0, -1>>,
     <<-1, 0, 0, 0, 0, 0, 0, -1>>,
     <<-1, 0, 0, 0, 0, 0, 0, -1>>,
     <<0, 0, 0, 1, 1, 0, 0, 0>> >>

QUEEN_TABLE ==
  << <<-2, -1, -1, 0, 0, -1, -1, -2>>,
     <<-1, 0, 0, 0, 0, 0, 0, -1>>,
     <<-1, 0, 1, 1, 1, 1, 0, -1>>,
     <<0, 0, 1, 1, 1, 1, 0, 0>>,
     <<0, 0, 1, 1, 1, 1, 0, 0>>,
     <<-1, 1, 1, 1, 1, 1, 0, -1>>,
     <<-1, 0, 1, 0, 0, 0, 0, -1>>,
     <<-2, -1, -1, 0, 0, -1, -1, -2>> >>

KING_TABLE ==
  << <<-3, -4, -4, -5, -5, -4, -4, -3>>,
     <<-3, -4, -4, -5, -5, -4, -4, -3>>,
     <<-3, -4, -4, -5, -5, -4, -4, -3>>,
     <<-3, -4, -4, -5, -5, -4, -4, -3>>,
     <<-2, -3, -3, -4, -4, -3, -3, -2>>,
     <<-1, -2, -2, -2, -2, -2, -2, -1>>,
     <<2, 2, 0, 0, 0, 0, 2, 2>>,
     <<2, 3, 1, 0, 0, 1, 3, 2>> >>

\* Piece::table(), read at [i][j] with i, j in 0..7 (Empty: all zeros).
table(piece, i, j) ==
  CASE piece = King -> KING_TABLE[i + 1][j + 1]
    [] piece = Queen -> QUEEN_TABLE[i + 1][j + 1]
    [] piece = Rook -> ROOK_TABLE[i + 1][j + 1]
    [] piece = Bishop -> BISHOP_TABLE[i + 1][j + 1]
    [] piece = Knight -> KNIGHT_TABLE[i + 1][j + 1]
    [] piece = Pawn -> PAWN_TABLE[i + 1][j + 1]
    [] OTHER -> 0

\* Piece::directions(), in the order of the vec! literals.
directions(piece) ==
  CASE piece = King ->
         << <<1, 0>>, <<1, 1>>, <<0, 1>>, <<-1, 1>>,
            <<-1, 0>>, <<-1, -1>>, <<0, -1>>, <<1, -1>> >>
    [] piece = Queen ->
         << <<1, 0>>, <<0, 1>>, <<-1, 0>>, <<0, -1>>,
            <<1, 1>>, <<1, -1>>, <<-1, 1>>, <<-1, -1>> >>
    [] piece = Rook -> << <<1, 0>>, <<0, 1>>, <<-1, 0>>, <<0, -1>> >>
    [] piece = Bishop -> << <<1, 1>>, <<1, -1>>, <<-1, 1>>, <<-1, -1>> >>
    [] piece = Knight ->
         << <<2, 1>>, <<2, -1>>, <<-2, 1>>, <<-2, -1>>,
            <<1, 2>>, <<1, -2>>, <<-1, 2>>, <<-1, -2>> >>
    [] OTHER -> << >>

\* Piece::value().
value(piece) ==
  CASE piece = King -> 900
    [] piece = Queen -> 90
    [] piece = Rook -> 50
    [] piece = Bishop -> 30
    [] piece = Knight -> 30
    [] piece = Pawn -> 10
    [] OTHER -> 0

(* ------------------------------ board.rs ------------------------------- *)

MAX_DEPTH == 4

\* A Board value: the three fields of struct Board.
Board(squares, transposition_table, turn) ==
  [squares |-> squares, transposition_table |-> transposition_table, turn |-> turn]

\* HashMap::new(): the table with no entry (a function of empty domain).
EmptyTable == << >>

\* HashMap::get is defined on the keys present; HashMap::insert adds or
\* replaces one entry.
table_contains(t, key) == key \in DOMAIN t
table_insert(t, key, v) ==
  [k \in (DOMAIN t) \cup {key} |-> IF k = key THEN v ELSE t[k]]

BackRank == <<Rook, Knight, Bishop, Queen, King, Bishop, Knight, Rook>>

\* Board::new(): the squares of the initial layout.
InitialSquares ==
  [i \in Idx |->
    [j \in Idx |->
      CASE i = 0 -> Square_new(BackRank[j + 1], White)
        [] i = 1 -> Square_new(Pawn, White)
        [] i = 6 -> Square_new(Pawn, Black)
        [] i = 7 -> Square_new(BackRank[j + 1], Black)
        [] OTHER -> Square_new(Empty, None)]]

Board_new == Board(InitialSquares, EmptyTable, White)

\* impl Clone for Board: squares copied square by square, the table cloned,
\* the turn copied.
Clone(self) ==
  Board([i \in Idx |-> [j \in Idx |-> self.squares[i][j]]],
        self.transposition_table, self.turn)

\* A make_move that copies the piece and leaves the source square as it is.
make_move_copy(self, from, to) ==
  LET piece == self.squares[from.row][from.col].piece
      color == self.squares[from.row][from.col].color
      sq1 == [self.squares EXCEPT ![to.row][to.col] = Square_new(piece, color)]
  IN Board(sq1, self.transposition_table,
           IF self.turn = White THEN Black ELSE White)

\* Board::make_move: two assignments in order, then the turn flips.
make_move(self, from, to) ==
  LET piece == self.squares[from.row][from.col].piece
      color == self.squares[from.row][from.col].color
      sq1 == [self.squares EXCEPT ![to.row][to.col] = Square_new(piece, color)]
      sq2 == [sq1 EXCEPT ![from.row][from.col] = Square_new(Empty, None)]
  IN Board(sq2, self.transposition_table,
           IF self.turn = White THEN Black ELSE White)

\* A ray that turns every occupied square it reaches into a capture, the
\* mover's own pieces included.
ray_onto_own(self, color, i, j, di, dj) ==
  LET piece == self.squares[i][j].piece
      go[t \in 1 .. BOARD_SIZE] ==
        LET new_i == i + t * di
            new_j == j + t * dj
        IN IF new_i < 0 \/ new_i >= 8 \/ new_j < 0 \/ new_j >= 8
           THEN << >>
           ELSE LET target_square == self.squares[new_i][new_j]
                IN IF target_square.piece = Empty
                   THEN <<Move(Position(i, j), Position(new_i, new_j), piece, None)>>
                        \o (IF piece = King \/ piece = Knight
                            THEN << >>
                            ELSE go[t + 1])
                   ELSE <<Move(Position(i, j), Position(new_i, new_j), piece,
                               target_square.piece)>>
  IN go[1]

\* A ray that goes on behind a captured piece.
ray_through(self, color, i, j, di, dj) ==
  LET piece == self.squares[i][j].piece
      go[t \in 1 .. BOARD_SIZE] ==
        LET new_i == i + t * di
            new_j == j + t * dj
        IN IF new_i < 0 \/ new_i >= 8 \/ new_j < 0 \/ new_j >= 8
           THEN << >>
           ELSE LET target_square == self.squares[new_i][new_j]
                IN IF target_square.piece = Empty
                   THEN <<Move(Position(i, j), Position(new_i, new_j), piece, None)>>
                        \o (IF piece = King \/ piece = Knight
                            THEN << >>
                            ELSE go[t + 1])
                   ELSE IF target_square.color # color
                        THEN <<Move(Position(i, j), Position(new_i, new_j), piece,
                                    target_square.piece)>>
                             \o (IF piece = King \/ piece = Knight
                                 THEN << >>
                                 ELSE go[t + 1])
                        ELSE << >>
  IN go[1]

\* One ray of the King/Queen/Rook/Bishop/Knight on (i, j) in direction
\* (di, dj): the inner loop of get_valid_moves.  go[t] is the loop from its
\* t-th iteration on, where new_i = i + t * di and new_j = j + t * dj.
ray(self, color, i, j, di, dj) ==
  LET piece == self.squares[i][j].piece
      go[t \in 1 .. BOARD_SIZE] ==
        LET new_i == i + t * di
            new_j == j + t * dj
        IN IF new_i < 0 \/ new_i >= 8 \/ new_j < 0 \/ new_j >= 8
           THEN << >>
           ELSE LET target_square == self.squares[new_i][new_j]
                IN IF target_square.piece = Empty
                   THEN <<Move(Position(i, j), Position(new_i, new_j), piece, None)>>
                        \o (IF piece = King \/ piece = Knight
                            THEN << >>
                            ELSE go[t + 1])
                   ELSE IF target_square.color # color
                        THEN <<Move(Position(i, j), Position(new_i, new_j), piece,
                                    target_square.piece)>>
                        ELSE << >>
  IN go[1]

\* The rays of the piece on (i, j), direction after direction.
rays(self, color, i, j) ==
  LET dirs == directions(self.squares[i][j].piece)
      from[k \in 1 .. Len(dirs) + 1] ==
        IF k > Len(dirs)
        THEN << >>
        ELSE ray(self, color, i, j, dirs[k][1], dirs[k][2]) \o from[k + 1]
  IN from[1]

\* A pawn that may also advance two squares from anywhere, which the source
\* does not implement.
pawn_moves_two_steps(self, color, i, j) ==
  LET direction == IF color = White THEN 1 ELSE -1
      new_i == as_usize(i + direction)
      far_i == as_usize(i + 2 * direction)
  IN IF new_i < 8 /\ self.squares[new_i][j].piece = Empty
     THEN <<Move(Position(i, j), Position(new_i, j), Pawn, None)>>
          \o (IF far_i < 8 /\ self.squares[far_i][j].piece = Empty
              THEN <<Move(Position(i, j), Position(far_i, j), Pawn, None)>>
              ELSE << >>)
     ELSE << >>

\* The single forward push of the pawn on (i, j).
pawn_moves(self, color, i, j) ==
  LET direction == IF color = White THEN 1 ELSE -1
      new_i == as_usize(i + direction)
  IN IF new_i < 8 /\ self.squares[new_i][j].piece = Empty
     THEN <<Move(Position(i, j), Position(new_i, j), Pawn, None)>>
     ELSE << >>

\* The body of the double loop of get_valid_moves for the square (i, j).
square_moves(self, color, i, j) ==
  LET square == self.squares[i][j]
  IN IF square.color = color
     THEN IF square.piece = Pawn
          THEN pawn_moves(self, color, i, j)
          ELSE rays(self, color, i, j)
     ELSE << >>

\* The double loop of get_valid_moves, rows then columns: the moves in
\* generation order.  row[i] is the outer loop from row i on, col[j] the
\* inner loop of row i from column j on.
generated_moves(self, color) ==
  LET row[i \in 0 .. BOARD_SIZE] ==
        IF i = BOARD_SIZE
        THEN << >>
        ELSE LET col[j \in 0 .. BOARD_SIZE] ==
                   IF j = BOARD_SIZE
                   THEN << >>
                   ELSE square_moves(self, color, i, j) \o col[j + 1]
             IN col[0] \o row[i + 1]
  IN row[0]

\* The key of moves.sort_by_key.
sort_key(mv) == IF mv.captured = None THEN 0 ELSE value(mv.captured)

\* Vec::sort_by_key is a stable sort: ascending keys, equal keys in their
\* original order.  sorted[k] is the first k moves sorted; the k-th move goes
\* after every element whose key is not greater.
sort_by_key(moves) ==
  LET sorted[k \in 0 .. Len(moves)] ==
        IF k = 0
        THEN << >>
        ELSE LET prev == sorted[k - 1]
                 key == sort_key(moves[k])
                 pos == Cardinality({n \in 1 .. Len(prev) : sort_key(prev[n]) <= key})
             IN SubSeq(prev, 1, pos) \o <<moves[k]>> \o SubSeq(prev, pos + 1, Len(prev))
  IN sorted[Len(moves)]

\* Board::get_valid_moves.
get_valid_moves(self, color) == sort_by_key(generated_moves(self, color))

\* The material table written inline in evaluate_board.
piece_value(piece) ==
  CASE piece = King -> 900
    [] piece = Queen -> 90
    [] piece = Rook -> 50
    [] piece = Bishop -> 30
    [] piece = Knight -> 30
    [] piece = Pawn -> 10
    [] OTHER -> 0

\* The sign of a square: +1 White, -1 Black, 0 no colour.
color_sign(color) ==
  CASE color = White -> 1
    [] color = Black -> -1
    [] OTHER -> 0

\* The first loop of evaluate_board: material plus piece-square bonus.
material_and_position(self) ==
  LET row[i \in 0 .. BOARD_SIZE] ==
        IF i = BOARD_SIZE
        THEN 0
        ELSE LET col[j \in 0 .. BOARD_SIZE] ==
                   IF j = BOARD_SIZE
                   THEN 0
                   ELSE LET square == self.squares[i][j]
                        IN (piece_value(square.piece) + table(square.piece, i, j))
                             * color_sign(square.color)
                           + col[j + 1]
             IN col[0] + row[i + 1]
  IN row[0]

\* Board::evaluate_king_safety.
evaluate_king_safety(self) ==
  LET row[i \in 0 .. BOARD_SIZE] ==
        IF i = BOARD_SIZE
        THEN 0
        ELSE LET col[j \in 0 .. BOARD_SIZE] ==
                   IF j = BOARD_SIZE
                   THEN 0
                   ELSE LET square == self.squares[i][j]
                            king_safety_value ==
                              IF square.color = White
                              THEN (IF i = 0 /\ (j = 0 \/ j = 7) THEN 20 ELSE 10)
                              ELSE (IF i = 7 /\ (j = 0 \/ j = 7) THEN 20 ELSE 10)
                        IN (IF square.piece = King
                            THEN king_safety_value * color_sign(square.color)
                            ELSE 0)
                           + col[j + 1]
             IN col[0] + row[i + 1]
  IN row[0]

\* Board::evaluate_pawn_structure.
evaluate_pawn_structure(self) ==
  LET row[i \in 0 .. BOARD_SIZE] ==
        IF i = BOARD_SIZE
        THEN 0
        ELSE LET col[j \in 0 .. BOARD_SIZE] ==
                   IF j = BOARD_SIZE
                   THEN 0
                   ELSE LET square == self.squares[i][j]
                            pawn_structure_value == IF j = 3 \/ j = 4 THEN 5 ELSE 2
                        IN (IF square.piece = Pawn
                            THEN pawn_structure_value * color_sign(square.color)
                            ELSE 0)
                           + col[j + 1]
             IN col[0] + row[i + 1]
  IN row[0]

piece_activity_value(piece) ==
  CASE piece = Queen -> 10
    [] piece = Rook -> 5
    [] piece = Bishop -> 3
    [] piece = Knight -> 3
    [] piece = Pawn -> 1
    [] OTHER -> 0

\* Board::evaluate_piece_activity.
evaluate_piece_activity(self) ==
  LET row[i \in 0 .. BOARD_SIZE] ==
        IF i = BOARD_SIZE
        THEN 0
        ELSE LET col[j \in 0 .. BOARD_SIZE] ==
                   IF j = BOARD_SIZE
                   THEN 0
                   ELSE LET square == self.squares[i][j]
                        IN (IF square.piece # Empty
                            THEN piece_activity_value(square.piece)
                                   * color_sign(square.color)
                            ELSE 0)
                           + col[j + 1]
             IN col[0] + row[i + 1]
  IN row[0]

\* Board::evaluate_board.
evaluate_board(self) ==
  LET white_moves == Len(get_valid_moves(self, White))
      black_moves == Len(get_valid_moves(self, Black))
  IN material_and_position(self)
     + evaluate_king_safety(self)
     + evaluate_pawn_structure(self)
     + evaluate_piece_activity(self)
     + (white_moves - black_moves)

\* Option<T> for the values that are not plain names: no value is the empty
\* tuple, Some(x) the tuple of x.
Nothing == << >>
Some(x) == <<x>>
unwrap(opt) == opt[1]

\* Board::find_king: the first king of the colour in row-major order, as
\* Some(<<i, j>>), or Nothing.
find_king(self, color) ==
  LET row[i \in 0 .. BOARD_SIZE] ==
        IF i = BOARD_SIZE
        THEN Nothing
        ELSE LET col[j \in 0 .. BOARD_SIZE] ==
                   IF j = BOARD_SIZE
                   THEN Nothing
                   ELSE LET square == self.squares[i][j]
                        IN IF square.piece = King /\ square.color = color
                           THEN Some(<<i, j>>)
                           ELSE col[j + 1]
             IN IF col[0] # Nothing THEN col[0] ELSE row[i + 1]
  IN row[0]

\* Board::is_in_check: the loop over the opponent's moves returns true at
\* the first move whose destination is the king's square.
is_in_check(self, color) ==
  LET king_pos == find_king(self, color)
  IN IF king_pos # Nothing
     THEN LET king_i == unwrap(king_pos)[1]
              king_j == unwrap(king_pos)[2]
              opponent_color == IF color = White THEN Black ELSE White
              opponent_moves == get_valid_moves(self, opponent_color)
              from[k \in 1 .. Len(opponent_moves) + 1] ==
                IF k > Len(opponent_moves)
                THEN FALSE
                ELSE IF opponent_moves[k].to = Position(king_i, king_j)
                     THEN TRUE
                     ELSE from[k + 1]
          IN from[1]
     ELSE FALSE

\* An is_checkmate that does not ask whether the king is attacked.
is_checkmate_no_moves(self, color) ==
  LET valid_moves == get_valid_moves(self, color)
  IN valid_moves = << >>

\* Board::is_checkmate.
is_checkmate(self, color) ==
  LET valid_moves == get_valid_moves(self, color)
  IN valid_moves = << >> /\ is_in_check(self, color)

\* A current_turn that answers with the turn of the board.
current_turn_of_board(self) == self.turn

\* Board::hash (a placeholder returning 0) and Board::current_turn (a
\* placeholder returning White).
hash(self) == 0
current_turn(self) == White

\* The predicate of valid_moves.retain in quiescence_search.
retained(self, mv) ==
  mv.captured # None
  \/ LET target_square == self.squares[mv.to.row][mv.to.col]
     IN IF target_square.color # None
        THEN is_in_check(self, target_square.color)
        ELSE FALSE

\* Board::quiescence_search.  quiescence_stand is the function after
\* stand_pat is computed, quiescence_loop its for loop from the k-th retained
\* move on, and quiescence_scored the rest of the loop body once the score
\* of the k-th move is known.
RECURSIVE quiescence_search(_, _, _)
RECURSIVE quiescence_stand(_, _, _, _)
RECURSIVE quiescence_loop(_, _, _, _, _)
RECURSIVE quiescence_scored(_, _, _, _, _, _)
quiescence_search(self, alpha, beta) ==
  quiescence_stand(self, evaluate_board(self), alpha, beta)

quiescence_stand(self, stand_pat, alpha, beta) ==
  IF stand_pat >= beta
  THEN beta
  ELSE quiescence_loop(self,
                       SelectSeq(get_valid_moves(self, current_turn(self)),
                                 LAMBDA mv : retained(self, mv)),
                       1,
                       IF alpha < stand_pat THEN stand_pat ELSE alpha,
                       beta)

quiescence_loop(self, valid_moves, k, alpha, beta) ==
  IF k > Len(valid_moves)
  THEN alpha
  ELSE LET mv == valid_moves[k]
           new_board == make_move(Clone(self), mv.from, mv.to)
       IN quiescence_scored(
            self, valid_moves, k, alpha, beta,
            neg_i32(quiescence_search(new_board, neg_i32(beta), neg_i32(alpha))))

quiescence_scored(self, valid_moves, k, alpha, beta, score) ==
  IF score >= beta
  THEN beta
  ELSE quiescence_loop(self, valid_moves, k + 1,
                       IF score > alpha THEN score ELSE alpha, beta)

\* Board::minimax.  The result is the returned score (eval), the receiver
\* after the call (self: only its table can have changed) and, as a count
\* kept for the analysis, how many lookups of the call and of the calls
\* below it found an entry (hits), how many calls were made (calls) and in
\* how many of them the color chosen from is_maximizing is not the turn of
\* the board the call runs on (off).
\* minimax_insert is the insert and return that end the function,
\* minimax_loop the for loop from the k-th move on, and minimax_searched the
\* rest of the loop body once the k-th move has been searched (r).
RECURSIVE minimax(_, _, _, _, _)
RECURSIVE minimax_loop(_, _, _, _, _, _, _, _, _, _, _)
RECURSIVE minimax_searched(_, _, _, _, _, _, _, _, _, _, _, _)
\* 1 if the color minimax chooses from is_maximizing differs from the turn
\* of the board, 0 if it is the same.
off_turn(self, is_maximizing) ==
  IF (IF is_maximizing THEN Black ELSE White) = self.turn THEN 0 ELSE 1

minimax_insert(self, eval, hits, calls, off) ==
  [eval |-> eval,
   self |-> [self EXCEPT !.transposition_table =
               table_insert(self.transposition_table, hash(self), eval)],
   hits |-> hits, calls |-> calls, off |-> off]

minimax_end(self, r) == minimax_insert(self, r.best_eval, r.hits, r.calls, r.off)

minimax(self, depth, is_maximizing, alpha, beta) ==
  LET board_hash == hash(self)
  IN IF table_contains(self.transposition_table, board_hash)
     THEN [eval |-> self.transposition_table[board_hash], self |-> self,
           hits |-> 1, calls |-> 1, off |-> off_turn(self, is_maximizing)]
     ELSE IF depth = 0
     THEN minimax_insert(self, quiescence_search(self, alpha, beta), 0, 1,
                         off_turn(self, is_maximizing))
     ELSE LET color == IF is_maximizing THEN Black ELSE White
          IN minimax_end(self,
               minimax_loop(self, get_valid_moves(self, color), 1, depth,
                            is_maximizing, alpha, beta,
                            IF is_maximizing THEN I32_MIN ELSE I32_MAX, 0, 1,
                            off_turn(self, is_maximizing)))

minimax_loop(self, valid_moves, k, depth, is_maximizing, alpha, beta, best_eval, hits, calls, off) ==
  IF k > Len(valid_moves)
  THEN [best_eval |-> best_eval, hits |-> hits, calls |-> calls, off |-> off]
  ELSE LET mv == valid_moves[k]
           new_board == make_move(Clone(self), mv.from, mv.to)
       IN minimax_searched(self, valid_moves, k, depth, is_maximizing, alpha,
                           beta, best_eval, hits, calls, off,
                           minimax(new_board, depth - 1, ~is_maximizing,
                                   alpha, beta))

\* The loop body with the cut-off test placed before the update of
\* best_eval, alpha and beta: the move that causes the cut-off is lost.
minimax_cut_before_update(self, valid_moves, k, depth, is_maximizing, alpha, beta, best_eval, hits, calls, off, r) ==
  LET eval == r.eval
      best2 == IF is_maximizing THEN max_i32(best_eval, eval)
                                ELSE min_i32(best_eval, eval)
      alpha2 == IF is_maximizing THEN max_i32(alpha, eval) ELSE alpha
      beta2 == IF is_maximizing THEN beta ELSE min_i32(beta, eval)
  IN IF beta2 <= alpha2
     THEN [best_eval |-> best_eval, hits |-> hits + r.hits,
           calls |-> calls + r.calls, off |-> off + r.off]
     ELSE minimax_loop(self, valid_moves, k + 1, depth, is_maximizing,
                       alpha2, beta2, best2, hits + r.hits, calls + r.calls,
                       off + r.off)

minimax_searched(self, valid_moves, k, depth, is_maximizing, alpha, beta, best_eval, hits, calls, off, r) ==
  LET eval == r.eval
      best2 == IF is_maximizing THEN max_i32(best_eval, eval)
                                ELSE min_i32(best_eval, eval)
      alpha2 == IF is_maximizing THEN max_i32(alpha, eval) ELSE alpha
      beta2 == IF is_maximizing THEN beta ELSE min_i32(beta, eval)
  IN IF beta2 <= alpha2
     THEN [best_eval |-> best2, hits |-> hits + r.hits,
           calls |-> calls + r.calls, off |-> off + r.off]
     ELSE minimax_loop(self, valid_moves, k + 1, depth, is_maximizing,
                       alpha2, beta2, best2, hits + r.hits, calls + r.calls,
                       off + r.off)

\* Board::get_valid_moves_after_move.
get_valid_moves_after_move(self, mv) ==
  LET new_board == make_move(Clone(self), mv.from, mv.to)
  IN get_valid_moves(new_board, new_board.turn)

center_squares ==
  <<Position(3, 3), Position(3, 4), Position(4, 3), Position(4, 4)>>

\* Vec::contains.
contains(seq, x) == \E k \in 1 .. Len(seq) : seq[k] = x

\* A tie-break that also prefers mv1 on equal mobility.
more_criteria_or_equal(self, mv1, mv2) ==
  LET mv1_controls_center == contains(center_squares, mv1.to)
      mv2_controls_center == contains(center_squares, mv2.to)
  IN IF mv1_controls_center /\ ~mv2_controls_center
     THEN TRUE
     ELSE IF ~mv1_controls_center /\ mv2_controls_center
     THEN FALSE
     ELSE Len(get_valid_moves_after_move(self, mv1))
            >= Len(get_valid_moves_after_move(self, mv2))

\* Board::more_criteria.
more_criteria(self, mv1, mv2) ==
  LET mv1_controls_center == contains(center_squares, mv1.to)
      mv2_controls_center == contains(center_squares, mv2.to)
  IN IF mv1_controls_center /\ ~mv2_controls_center
     THEN TRUE
     ELSE IF ~mv1_controls_center /\ mv2_controls_center
     THEN FALSE
     ELSE LET mv1_mobility == Len(get_valid_moves_after_move(self, mv1))
              mv2_mobility == Len(get_valid_moves_after_move(self, mv2))
          IN IF mv1_mobility > mv2_mobility
             THEN TRUE
             ELSE FALSE

\* The first three statements of the inner loop body of find_best_move: the
\* candidate is played on a clone and the clone is searched.  The result is
\* the score, the receiver after the statements, and the counts of
\* the search (searched builds it from what minimax returned).
\* The search made on the receiver's own table instead of a clone's: what it
\* inserted stays in the receiver.
searched_in_own_table(self, r) ==
  [self |-> [self EXCEPT !.transposition_table = r.self.transposition_table],
   score |-> r.eval, hits |-> r.hits, calls |-> r.calls, off |-> r.off]

searched(self, r) ==
  [self |-> self, score |-> r.eval, hits |-> r.hits, calls |-> r.calls,
   off |-> r.off]

\* The candidate searched with the flag of the other side.
search_candidate_other_side(self, mv, depth, color) ==
  LET new_board == make_move(Clone(self), mv.from, mv.to)
  IN searched(self, minimax(new_board, depth, color = Black, I32_MIN, I32_MAX))

search_candidate(self, mv, depth, color) ==
  LET new_board == make_move(Clone(self), mv.from, mv.to)
  IN searched(self, minimax(new_board, depth, color = White, I32_MIN, I32_MAX))

\* A comparison that lets an equal score replace the running best too.
improves_or_equal(color, score, best_score) ==
  (color = Black /\ score >= best_score) \/ (color = White /\ score <= best_score)

\* Whether a score replaces the running best score (the first branch of the
\* if in find_best_move).
improves(color, score, best_score) ==
  (color = Black /\ score > best_score) \/ (color = White /\ score < best_score)

\* The rest of the inner loop body, once the candidate mv has been searched
\* (c).  st holds the receiver (self), best_move, best_score, whether
\* best_move.unwrap() was reached with no best move (panicked), and what the
\* analysis records: every (depth, move, score) computed (log) and the
\* counts of the searches (hits, calls, off).
compare_candidate(st, color, depth, mv, c) ==
  LET seen == [st EXCEPT !.self = c.self,
                         !.log = Append(@, [depth |-> depth, mv |-> mv,
                                            score |-> c.score]),
                         !.hits = @ + c.hits,
                         !.calls = @ + c.calls,
                         !.off = @ + c.off]
  IN IF improves(color, c.score, st.best_score)
     THEN [seen EXCEPT !.best_score = c.score, !.best_move = Some(mv)]
     ELSE IF c.score = st.best_score
     THEN IF st.best_move = Nothing
          THEN [seen EXCEPT !.panicked = TRUE]
          ELSE IF more_criteria(c.self, mv, unwrap(st.best_move))
               THEN [seen EXCEPT !.best_move = Some(mv)]
               ELSE seen
     ELSE seen

\* The inner loop of find_best_move from the k-th move on.
RECURSIVE find_best_move_moves(_, _, _, _, _)
find_best_move_moves(st, color, depth, valid_moves, k) ==
  IF k > Len(valid_moves) \/ st.panicked
  THEN st
  ELSE find_best_move_moves(
         compare_candidate(st, color, depth, valid_moves[k],
                           search_candidate(st.self, valid_moves[k], depth, color)),
         color, depth, valid_moves, k + 1)

\* The outer loop of find_best_move: depth = 1 ..= MAX_DEPTH.
RECURSIVE find_best_move_depths(_, _, _)
find_best_move_depths(st, color, depth) ==
  IF depth > MAX_DEPTH \/ st.panicked
  THEN st
  ELSE find_best_move_depths(
         find_best_move_moves(st, color, depth,
                              get_valid_moves(st.self, color), 1),
         color, depth + 1)

\* A find_best_move that plays the move it found on the receiver.
find_best_move_and_play(self) ==
  LET color == self.turn
      st == find_best_move_depths(
              [self |-> self,
               best_move |-> Nothing,
               best_score |-> IF color = Black THEN I32_MIN ELSE I32_MAX,
               panicked |-> FALSE,
               log |-> << >>, hits |-> 0, calls |-> 0, off |-> 0],
              color, 1)
  IN IF st.best_move = Nothing
     THEN st
     ELSE [st EXCEPT !.self = make_move(st.self, unwrap(st.best_move).from,
                                        unwrap(st.best_move).to)]

\* A find_best_move whose best_score starts at the other end: i32::MAX for
\* Black and i32::MIN for White.
find_best_move_from_other_end(self) ==
  LET color == self.turn
  IN find_best_move_depths(
       [self |-> self,
        best_move |-> Nothing,
        best_score |-> IF color = Black THEN I32_MAX ELSE I32_MIN,
        panicked |-> FALSE,
        log |-> << >>, hits |-> 0, calls |-> 0, off |-> 0],
       color, 1)

\* Board::find_best_move.
find_best_move(self) ==
  LET color == self.turn
  IN find_best_move_depths(
       [self |-> self,
        best_move |-> Nothing,
        best_score |-> IF color = Black THEN I32_MIN ELSE I32_MAX,
        panicked |-> FALSE,
        log |-> << >>, hits |-> 0, calls |-> 0, off |-> 0],
       color, 1)

(* ------------------------- the state machine --------------------------- *)

\* squares, transposition_table, turn: the fields of the Board that main
\* (or another client of the library) owns.
\* pc: where main's loop stands: "find" (before find_best_move), "apply"
\* (a best move was returned), "check" (after make_move), "done" (the loop
\* was left), "panic" (best_move.unwrap() on no move).
\* best_move: the Option<Move> find_best_move returned last.
\* plies: how many make_move calls the client has made.
\* call: the last call made on the board, with its arguments and result.
\* before: the board as it was when that call was made.
\* trace: what the last find_best_move computed, kept for the analysis: its
\* (depth, move, score) triples, how many minimax calls it made, how many of their
\* cache lookups hit, and in how many the side chosen from the flag is not
\* the turn of the board.
VARIABLES squares, transposition_table, turn, pc, best_move, plies,
          call, before, trace

vars == <<squares, transposition_table, turn, pc, best_move, plies,
          call, before, trace>>

board == Board(squares, transposition_table, turn)

SetBoard(b) ==
  /\ squares' = b.squares
  /\ transposition_table' = b.transposition_table
  /\ turn' = b.turn

NoTrace == [log |-> << >>, hits |-> 0, calls |-> 0, off |-> 0]

\* How many make_move calls a client makes after the start position (Spec),
\* and how many times main's loop runs (SpecMain).
MaxCalls == 1
MaxPlies == 1

\* A start position is reached from Board::new() by make_move calls alone,
\* which make_move allows since it validates nothing: the pieces wanted are
\* moved to their squares (relocate, in order), and every other piece is
\* overwritten by moving an empty square onto it (keep: the squares left
\* alone).
play(self, calls) ==
  LET after[k \in 0 .. Len(calls)] ==
        IF k = 0
        THEN self
        ELSE make_move(after[k - 1],
                       Position(calls[k][1][1], calls[k][1][2]),
                       Position(calls[k][2][1], calls[k][2][2]))
  IN after[Len(calls)]

\* An empty square outside keep.
hole(self, keep) ==
  CHOOSE p \in Idx \X Idx : self.squares[p[1]][p[2]].piece = Empty /\ p \notin keep

clear_row(self, keep, i) ==
  LET h == hole(self, keep)
      col[j \in 0 .. BOARD_SIZE] ==
        IF j = BOARD_SIZE
        THEN << >>
        ELSE (IF <<i, j>> \notin keep /\ self.squares[i][j].piece # Empty
              THEN << <<h, <<i, j>> >> >>
              ELSE << >>) \o col[j + 1]
  IN play(self, col[0])

clear_except(self, keep) ==
  LET cleared[i \in 0 .. BOARD_SIZE] ==
        IF i = 0 THEN self ELSE clear_row(cleared[i - 1], keep, i - 1)
  IN cleared[BOARD_SIZE]

setup(start) == clear_except(play(Board_new, start.relocate), start.keep)

\* One more call, of an empty square onto itself, changes the turn only.
with_turn(self, t) ==
  IF self.turn = t
  THEN self
  ELSE LET h == hole(self, {}) IN play(self, << <<h, h>> >>)

(* The start positions. *)

\* The initial layout itself.
Initial ==
    [relocate |-> << >>,
     keep |-> {p \in Idx \X Idx : InitialSquares[p[1]][p[2]].piece # Empty}]

\* The Black king walled in by its own pawns in the corner, a White knight attacking it.
Boxed ==
    [relocate |-> << << <<7, 4>>, <<0, 0>> >>,
                   << <<6, 0>>, <<0, 1>> >>,
                   << <<6, 1>>, <<1, 0>> >>,
                   << <<6, 2>>, <<1, 1>> >>,
                   << <<0, 6>>, <<2, 1>> >> >>,
     keep |-> {<<0, 0>>, <<0, 1>>, <<1, 0>>, <<1, 1>>, <<2, 1>>}]

\* The same for the White king in the opposite corner.
WhiteBoxed ==
    [relocate |-> << << <<0, 4>>, <<7, 7>> >>,
                   << <<1, 0>>, <<7, 6>> >>,
                   << <<1, 1>>, <<6, 7>> >>,
                   << <<1, 2>>, <<6, 6>> >>,
                   << <<7, 1>>, <<5, 6>> >> >>,
     keep |-> {<<5, 6>>, <<6, 6>>, <<6, 7>>, <<7, 6>>, <<7, 7>>}]

\* One pawn each on its initial square.
Race ==
    [relocate |-> <<>>,
     keep |-> {<<1, 0>>, <<6, 7>>}]

\* Two pawns each.
Pawns2 ==
    [relocate |-> <<>>,
     keep |-> {<<1, 0>>, <<1, 3>>, <<6, 1>>, <<6, 4>>}]

\* A White knight that can capture a pawn.
KnightCap ==
    [relocate |-> << << <<0, 1>>, <<0, 0>> >>,
                   << <<6, 0>>, <<2, 1>> >> >>,
     keep |-> {<<0, 0>>, <<1, 7>>, <<2, 1>>, <<6, 5>>}]

\* Two pawns blocking each other and two free pawns.
Blocked ==
    [relocate |-> << << <<1, 1>>, <<3, 3>> >>,
                   << <<6, 1>>, <<4, 3>> >> >>,
     keep |-> {<<1, 0>>, <<3, 3>>, <<4, 3>>, <<6, 0>>}]

\* A White bishop behind its own pawn.
BishopPawns ==
    [relocate |-> << << <<0, 2>>, <<0, 0>> >>,
                   << <<1, 0>>, <<2, 2>> >>,
                   << <<6, 0>>, <<3, 2>> >> >>,
     keep |-> {<<0, 0>>, <<2, 2>>, <<3, 2>>, <<6, 1>>}]

\* A knight each in its corner.
Knights ==
    [relocate |-> << << <<0, 1>>, <<0, 0>> >>,
                   << <<7, 1>>, <<7, 7>> >> >>,
     keep |-> {<<0, 0>>, <<7, 7>>}]

\* White pawns only.
LonePawns ==
    [relocate |-> << << <<1, 0>>, <<2, 5>> >> >>,
     keep |-> {<<1, 1>>, <<2, 5>>}]

\* Pawns on their last rows, which cannot move, and one free pawn each.
Edge ==
    [relocate |-> << << <<1, 0>>, <<7, 0>> >>,
                   << <<6, 0>>, <<0, 5>> >> >>,
     keep |-> {<<0, 5>>, <<1, 1>>, <<6, 6>>, <<7, 0>>}]

\* Doubled White pawns and a Black pawn.
Doubled ==
    [relocate |-> << << <<1, 0>>, <<2, 2>> >> >>,
     keep |-> {<<1, 2>>, <<2, 2>>, <<6, 2>>}]

\* Two pawns blocking each other: neither side can move.
Stuck ==
    [relocate |-> << << <<1, 0>>, <<3, 3>> >>,
                   << <<6, 0>>, <<4, 3>> >> >>,
     keep |-> {<<3, 3>>, <<4, 3>>}]

\* A Black knight in the corner against pawns.
KnightPawns ==
    [relocate |-> << << <<7, 1>>, <<7, 0>> >>,
                   << <<1, 0>>, <<5, 1>> >> >>,
     keep |-> {<<1, 6>>, <<5, 1>>, <<6, 3>>, <<7, 0>>}]

\* Rooks, bishops and a queen with blockers of both colours on their rays.
Sliders ==
    [relocate |-> << << <<0, 0>>, <<3, 3>> >>,
                   << <<6, 0>>, <<3, 6>> >>,
                   << <<1, 0>>, <<5, 3>> >>,
                   << <<0, 2>>, <<1, 1>> >>,
                   << <<7, 3>>, <<5, 5>> >>,
                   << <<7, 0>>, <<3, 0>> >>,
                   << <<7, 2>>, <<6, 2>> >>,
                   << <<0, 1>>, <<4, 1>> >> >>,
     keep |-> {<<0, 4>>, <<1, 1>>, <<3, 0>>, <<3, 3>>, <<3, 6>>, <<4, 1>>, <<5, 3>>, <<5, 5>>, <<6, 2>>, <<7, 4>>}]

\* A queen and a rook on an open board.
Open ==
    [relocate |-> << << <<0, 3>>, <<3, 4>> >>,
                   << <<7, 0>>, <<5, 4>> >>,
                   << <<0, 4>>, <<0, 0>> >>,
                   << <<7, 4>>, <<7, 7>> >>,
                   << <<6, 0>>, <<3, 1>> >> >>,
     keep |-> {<<0, 0>>, <<3, 1>>, <<3, 4>>, <<5, 4>>, <<7, 7>>}]

\* A Black knight two jumps from the center, with pawns.
KnightCenter ==
    [relocate |-> << << <<1, 0>>, <<7, 0>> >>,
                   << <<6, 0>>, <<3, 6>> >>,
                   << <<7, 1>>, <<5, 1>> >> >>,
     keep |-> {<<1, 6>>, <<3, 6>>, <<5, 1>>, <<7, 0>>}]

\* A White knight that can capture two pawns one after the other.
KnightChain ==
    [relocate |-> << << <<0, 1>>, <<0, 0>> >>,
                   << <<6, 0>>, <<2, 1>> >>,
                   << <<6, 1>>, <<4, 2>> >> >>,
     keep |-> {<<0, 0>>, <<2, 1>>, <<4, 2>>}]

MainStarts ==
  {Boxed, WhiteBoxed, Race, Pawns2, KnightCap, Blocked, BishopPawns, Knights, LonePawns, Edge, Doubled, Stuck, KnightPawns, KnightCenter, KnightChain}

ApiStarts == MainStarts \cup {Initial, Sliders, Open}

\* The squares a client passes to make_move without asking the engine.
ProbeSquares == {Position(0, 0), Position(1, 0), Position(3, 3)}

InitFrom(starts) ==
  \E start \in starts, t \in Color :
    LET b == with_turn(setup(start), t)
    IN /\ squares = b.squares
       /\ transposition_table = EmptyTable
       /\ turn = b.turn
       /\ pc = "find"
       /\ best_move = Nothing
       /\ plies = 0
       /\ call = [op |-> "new"]
       /\ before = Board(b.squares, EmptyTable, b.turn)
       /\ trace = NoTrace

(* The library as a client may use it: make_move with any squares, and the
   queries. *)

MakeMove(from, to) ==
  /\ plies < MaxCalls
  /\ SetBoard(make_move(board, from, to))
  /\ plies' = plies + 1
  /\ call' = [op |-> "make_move", from |-> from, to |-> to]
  /\ before' = board
  /\ UNCHANGED <<pc, best_move, trace>>

\* make_move with a move the engine generated for the side to move.
PlayCandidate ==
  \E mv \in {get_valid_moves(board, turn)[k] :
               k \in 1 .. Len(get_valid_moves(board, turn))} :
    MakeMove(mv.from, mv.to)

\* make_move with squares the engine was not asked about.
PlayProbe == \E from \in ProbeSquares, to \in ProbeSquares : MakeMove(from, to)

Query(c) ==
  /\ call' = c
  /\ before' = board
  /\ UNCHANGED <<squares, transposition_table, turn, pc, best_move, plies, trace>>

GetValidMoves ==
  \E color \in Color :
    Query([op |-> "get_valid_moves", color |-> color,
           result |-> get_valid_moves(board, color)])

EvaluateBoard ==
  Query([op |-> "evaluate_board", result |-> evaluate_board(board)])

IsCheckmate ==
  \E color \in Color :
    Query([op |-> "is_checkmate", color |-> color,
           result |-> is_checkmate(board, color)])

Init == InitFrom(ApiStarts)

Next == PlayCandidate \/ PlayProbe \/ GetValidMoves \/ EvaluateBoard \/ IsCheckmate

Spec == Init /\ [][Next]_vars

(* main: loop { find_best_move; make_move; is_checkmate }, and a client
   that asks is_checkmate once the loop has ended with no move. *)

FindBestMove ==
  /\ pc = "find"
  /\ plies < MaxPlies
  /\ LET r == find_best_move(board)
     IN /\ SetBoard(r.self)
        /\ best_move' = r.best_move
        /\ trace' = [log |-> r.log, hits |-> r.hits, calls |-> r.calls,
                   off |-> r.off]
        /\ pc' = IF r.panicked THEN "panic"
                 ELSE IF r.best_move = Nothing THEN "done"
                 ELSE "apply"
  /\ call' = [op |-> "find_best_move"]
  /\ before' = board
  /\ UNCHANGED plies

ApplyBestMove ==
  /\ pc = "apply"
  /\ SetBoard(make_move(board, unwrap(best_move).from, unwrap(best_move).to))
  /\ plies' = plies + 1
  /\ pc' = "check"
  /\ call' = [op |-> "make_move", from |-> unwrap(best_move).from,
              to |-> unwrap(best_move).to]
  /\ before' = board
  /\ UNCHANGED <<best_move, trace>>

CheckForCheckmate ==
  /\ pc = "check"
  /\ LET result == is_checkmate(board, turn)
     IN /\ call' = [op |-> "is_checkmate", color |-> turn, result |-> result]
        /\ pc' = IF result THEN "done" ELSE "find"
  /\ before' = board
  /\ UNCHANGED <<squares, transposition_table, turn, best_move, plies, trace>>

\* After find_best_move returned no move, the caller asks is_checkmate.
AskCheckmate ==
  /\ pc = "done"
  /\ best_move = Nothing
  /\ \E color \in Color :
       call' = [op |-> "is_checkmate", color |-> color,
                result |-> is_checkmate(board, color)]
  /\ pc' = "asked"
  /\ before' = board
  /\ UNCHANGED <<squares, transposition_table, turn, best_move, plies, trace>>

InitMain == InitFrom(MainStarts)

NextMain == FindBestMove \/ ApplyBestMove \/ CheckForCheckmate \/ AskCheckmate

SpecMain == InitMain /\ [][NextMain]_vars


(* ------------------------------ the claims ----------------------------- *)

\* The moves of the last get_valid_moves result, as a set.
ResultMoves == {call.result[k] : k \in 1 .. Len(call.result)}

\* get_valid_moves(White) was just called on the initial layout.
OnInitialBoardForWhite ==
  /\ call.op = "get_valid_moves"
  /\ call.color = White
  /\ before.squares = InitialSquares

InitialPawnAdvances ==
  {Move(Position(1, j), Position(2, j), Pawn, None) : j \in Idx}

InitialKnightMoves ==
  {Move(Position(0, 1), Position(2, 0), Knight, None),
   Move(Position(0, 1), Position(2, 2), Knight, None),
   Move(Position(0, 6), Position(2, 5), Knight, None),
   Move(Position(0, 6), Position(2, 7), Knight, None)}

\* C1 as stated: on the initial board get_valid_moves(White) returns exactly
\* the 8 single-step pawn advances, one per file, and no other move.
C1_OnlyPawnAdvances ==
  OnInitialBoardForWhite =>
    /\ Len(call.result) = 8
    /\ ResultMoves = InitialPawnAdvances

\* C1 amended: on the initial board get_valid_moves(White) returns exactly 12
\* moves, the 8 single-step pawn advances and the 4 knight moves to row 2;
\* no bishop, rook, queen or king move is generated.
C1_PawnAdvancesAndKnightMoves ==
  OnInitialBoardForWhite =>
    /\ Len(call.result) = 12
    /\ ResultMoves = InitialPawnAdvances \cup InitialKnightMoves
    /\ \A mv \in ResultMoves : mv.piece \notin {Bishop, Rook, Queen, King}

C1_InitialMovesAsked ==
  /\ OnInitialBoardForWhite
  /\ \E mv \in ResultMoves : mv.piece = Knight
  /\ \E mv \in ResultMoves : mv.piece = Pawn


\* The Square invariant: a square has no color iff it holds no piece.
SquareInvariant(b) ==
  \A i \in Idx, j \in Idx :
    (b.squares[i][j].color = None) <=> (b.squares[i][j].piece = Empty)

InGrid(pos) == pos.row \in Idx /\ pos.col \in Idx

\* The square of board b at a position.
At(b, pos) == b.squares[pos.row][pos.col]

\* C2: every move returned by get_valid_moves(c), on a board satisfying the
\* Square invariant, starts on a square holding a piece of color c and ends
\* on a square of the grid that is empty or holds a piece of the other
\* color; it carries a captured piece exactly when its destination holds an
\* opposing piece, and then that piece.
C2_MovesFromOwnToEmptyOrOpposing ==
  (call.op = "get_valid_moves" /\ SquareInvariant(before)) =>
    \A mv \in ResultMoves :
      /\ InGrid(mv.from) /\ InGrid(mv.to)
      /\ At(before, mv.from).piece # Empty
      /\ At(before, mv.from).color = call.color
      /\ At(before, mv.to).color # call.color
      /\ (At(before, mv.to).piece = Empty <=> mv.captured = None)
      /\ (At(before, mv.to).piece # Empty =>
            /\ At(before, mv.to).color \in Color \ {call.color}
            /\ mv.captured = At(before, mv.to).piece)

\* A result with a capture and a move to an empty square.
C2_CaptureAndQuietMove ==
  /\ call.op = "get_valid_moves"
  /\ SquareInvariant(before)
  /\ \E mv \in ResultMoves : mv.captured # None
  /\ \E mv \in ResultMoves : mv.captured = None

\* The squares strictly between two squares t steps apart in direction d.
Between(from, d, t) ==
  {Position(from.row + s * d[1], from.col + s * d[2]) : s \in 1 .. t - 1}

Directions(piece) == {directions(piece)[k] : k \in 1 .. Len(directions(piece))}

\* C3: each Bishop, Rook or Queen move returned by get_valid_moves lies on
\* one of the piece's directions, and every square strictly between its
\* ends is empty: no ray goes beyond the first occupied square, captured or
\* not.
C3_SlidersStopAtFirstOccupied ==
  call.op = "get_valid_moves" =>
    \A mv \in ResultMoves :
      mv.piece \in {Bishop, Rook, Queen} =>
        \E d \in Directions(mv.piece), t \in 1 .. BOARD_SIZE - 1 :
          /\ mv.to = Position(mv.from.row + t * d[1], mv.from.col + t * d[2])
          /\ \A pos \in Between(mv.from, d, t) : At(before, pos).piece = Empty

\* A slider of color c with, on one of its rays, an occupied square that has
\* a square of the grid behind it.
BlockedRay(b, c, capture) ==
  \E i \in Idx, j \in Idx :
    /\ b.squares[i][j].color = c
    /\ b.squares[i][j].piece \in {Bishop, Rook, Queen}
    /\ \E d \in Directions(b.squares[i][j].piece), t \in 1 .. BOARD_SIZE - 2 :
         /\ InGrid(Position(i + (t + 1) * d[1], j + (t + 1) * d[2]))
         /\ \A pos \in Between(Position(i, j), d, t) : At(b, pos).piece = Empty
         /\ At(b, Position(i + t * d[1], j + t * d[2])).piece # Empty
         /\ capture <=> At(b, Position(i + t * d[1], j + t * d[2])).color # c

\* A result with a slider move of two steps or more, from a board where a
\* ray of the mover ends on a piece it captures and another on one of its
\* own.
C3_RaysBlockedBothWays ==
  /\ call.op = "get_valid_moves"
  /\ BlockedRay(before, call.color, TRUE)
  /\ BlockedRay(before, call.color, FALSE)
  /\ \E mv \in ResultMoves :
       /\ mv.piece \in {Bishop, Rook, Queen}
       /\ mv.from.row - mv.to.row \notin {-1, 0, 1} \/ mv.from.col - mv.to.col \notin {-1, 0, 1}


opposite(color) ==
  IF color = White THEN Black ELSE IF color = Black THEN White ELSE None

\* The position with White and Black swapped on every square.
color_swap(b) ==
  [b EXCEPT !.squares =
     [i \in Idx |-> [j \in Idx |->
        Square_new(b.squares[i][j].piece, opposite(b.squares[i][j].color))]]]

\* The position with the colors swapped and the rows reversed, under which
\* the initial layout is its own mirror.
color_mirror(b) ==
  [b EXCEPT !.squares =
     [i \in Idx |-> [j \in Idx |->
        Square_new(b.squares[BOARD_SIZE - 1 - i][j].piece,
                   opposite(b.squares[BOARD_SIZE - 1 - i][j].color))]]]

\* C4 as stated: evaluate_board of the position with White and Black swapped
\* on every square is the negation of evaluate_board of the position, and a
\* position that is its own color mirror, such as the initial board,
\* evaluates to 0.
C4_EvaluateAntisymmetric ==
  call.op = "evaluate_board" =>
    /\ evaluate_board(color_swap(before)) = 0 - call.result
    /\ evaluate_board(color_mirror(before)) = 0 - call.result
    /\ color_mirror(before).squares = before.squares => call.result = 0
    /\ before.squares = InitialSquares => call.result = 0


\* Minimax of the given depth with no pruning and no cache: every move of
\* get_valid_moves is explored, a node with no moves has the sentinel
\* (i32::MIN when maximizing, i32::MAX otherwise), and a leaf has the
\* quiescence score of its board.  The result is the value and the number of
\* nodes.
RECURSIVE full_minimax(_, _, _)
full_minimax(self, depth, is_maximizing) ==
  IF depth = 0
  THEN [eval |-> quiescence_search(self, I32_MIN, I32_MAX), nodes |-> 1]
  ELSE LET valid_moves == get_valid_moves(self, IF is_maximizing THEN Black ELSE White)
           upto[k \in 0 .. Len(valid_moves)] ==
             IF k = 0
             THEN [eval |-> IF is_maximizing THEN I32_MIN ELSE I32_MAX, nodes |-> 1]
             ELSE LET mv == valid_moves[k]
                      r == full_minimax(make_move(Clone(self), mv.from, mv.to),
                                        depth - 1, ~is_maximizing)
                      prev == upto[k - 1]
                  IN [eval |-> IF is_maximizing THEN max_i32(prev.eval, r.eval)
                                                ELSE min_i32(prev.eval, r.eval),
                      nodes |-> prev.nodes + r.nodes]
       IN upto[Len(valid_moves)]

\* The full minimax of the k-th search that the last find_best_move made:
\* the board after the candidate, the depth and the side of that search.
FullOfLogged(k) ==
  full_minimax(make_move(Clone(before), trace.log[k].mv.from, trace.log[k].mv.to),
               trace.log[k].depth, before.turn = White)

\* C5: every value minimax(d, is_maximizing, i32::MIN, i32::MAX) returned to
\* find_best_move, for d in 1..4 and either side, equals the value of the
\* full minimax of depth d on the same board.
C5_AlphaBetaEqualsFullMinimax ==
  call.op = "find_best_move" =>
    \A k \in 1 .. Len(trace.log) :
      /\ trace.log[k].depth \in 1 .. MAX_DEPTH
      /\ trace.log[k].score = FullOfLogged(k).eval

\* A find_best_move with a search of every depth 1..4, one of which visited
\* fewer nodes than the full minimax has: something was pruned.
C5_SearchPruned ==
  /\ call.op = "find_best_move"
  /\ \A d \in 1 .. MAX_DEPTH : \E k \in 1 .. Len(trace.log) : trace.log[k].depth = d
  /\ LET full[k \in 0 .. Len(trace.log)] ==
           IF k = 0 THEN 0 ELSE full[k - 1] + FullOfLogged(k).nodes
     IN trace.calls < full[Len(trace.log)]


NoMoves(b, c) == get_valid_moves(b, c) = << >>

\* Some move of the other color ends on a square holding a king of color c.
KingAttacked(b, c) ==
  \E n \in 1 .. Len(get_valid_moves(b, opposite(c))) :
    LET to == get_valid_moves(b, opposite(c))[n].to
    IN At(b, to).piece = King /\ At(b, to).color = c

\* C6: where Black is to move, has no move and has its king attacked,
\* find_best_move returns None without panicking, and is_checkmate(Black)
\* asked after it returns true; every is_checkmate(c) returns true iff c has
\* no move and some move of the other color ends on c's king square.
C6_NoMoveAndCheckmate ==
  /\ (call.op = "find_best_move" /\ before.turn = Black
      /\ NoMoves(before, Black) /\ KingAttacked(before, Black)) =>
       (best_move = Nothing /\ pc = "done")
  /\ (pc = "asked" /\ call.color = Black /\ turn = Black
      /\ NoMoves(board, Black) /\ KingAttacked(board, Black)) =>
       call.result = TRUE
  /\ call.op = "is_checkmate" =>
       (call.result <=> (NoMoves(before, call.color) /\ KingAttacked(before, call.color)))

\* is_checkmate(Black) answered true after find_best_move returned None for
\* Black.
C6_BlackCheckmated ==
  /\ pc = "asked"
  /\ turn = Black
  /\ best_move = Nothing
  /\ call.color = Black
  /\ call.result = TRUE

\* C7: find_best_move leaves the squares and the turn of its receiver as they
\* were, whatever it returns.
C7_FindBestMoveKeepsSquaresAndTurn ==
  call.op = "find_best_move" =>
    /\ squares = before.squares
    /\ turn = before.turn

\* A find_best_move that searched candidates and returned a move.
C7_SearchedAndReturnedMove ==
  /\ call.op = "find_best_move"
  /\ best_move # Nothing
  /\ trace.calls > Len(trace.log)
  /\ Len(trace.log) > 0

PieceCount(b) ==
  Cardinality({p \in Idx \X Idx : b.squares[p[1]][p[2]].piece # Empty})

\* C8: make_move(from, to) with from # to puts the previous content of from
\* on to, empties from, flips the turn and leaves the other 62 squares and
\* the table as they were, whatever the squares hold; the Square invariant
\* holds in every state reached from Board::new by make_move, and no
\* make_move increases the number of pieces.
C8_MakeMoveRelocatesAndFlips ==
  /\ (call.op = "make_move" /\ call.from # call.to) =>
       /\ At(board, call.to) = At(before, call.from)
       /\ At(board, call.from) = Square_new(Empty, None)
       /\ turn \in Color /\ before.turn \in Color /\ turn # before.turn
       /\ \A i \in Idx, j \in Idx :
            Position(i, j) \notin {call.from, call.to} =>
              squares[i][j] = before.squares[i][j]
       /\ transposition_table = before.transposition_table
  /\ SquareInvariant(board)
  /\ call.op = "make_move" => PieceCount(board) <= PieceCount(before)

\* A make_move of a piece onto a piece of its own color.
C8_MovedOntoOwnPiece ==
  /\ call.op = "make_move"
  /\ call.from # call.to
  /\ At(before, call.from).piece # Empty
  /\ At(before, call.to).color = At(before, call.from).color

\* C10 as stated: once a minimax call of a find_best_move has inserted a
\* score, the later calls find it at lookup and return it, so that some
\* lookup finds an entry and every score computed is the first cached value.
C10_LaterCallsReturnCached ==
  (call.op = "find_best_move" /\ trace.calls > 1) =>
    /\ trace.hits > 0
    /\ \A k \in 1 .. Len(trace.log) : trace.log[k].score = trace.log[1].score

\* C10 amended: no lookup of a find_best_move finds an entry, and the
\* receiver's table is empty after it as before: every minimax call runs on
\* a clone taken before its caller inserts, and inserts into its own copy.
C10_NoLookupFindsAnEntry ==
  call.op = "find_best_move" =>
    /\ trace.hits = 0
    /\ transposition_table = EmptyTable
    /\ before.transposition_table = EmptyTable

\* A find_best_move with many minimax calls, no lookup that found an entry,
\* and two different scores.
C10_ScoresDifferWithoutHits ==
  /\ call.op = "find_best_move"
  /\ trace.calls > Len(trace.log)
  /\ trace.hits = 0
  /\ \E k \in 1 .. Len(trace.log) : trace.log[k].score # trace.log[1].score

\* The log of the last find_best_move and the color it searched for.
Log == trace.log
Searcher == before.turn

\* The least and the greatest score of the log.
LeastScore == CHOOSE s \in {Log[k].score : k \in 1 .. Len(Log)} :
                \A k \in 1 .. Len(Log) : s <= Log[k].score
GreatestScore == CHOOSE s \in {Log[k].score : k \in 1 .. Len(Log)} :
                   \A k \in 1 .. Len(Log) : s >= Log[k].score

\* The running best of C11 after the first k entries of the log: one best
\* score for all depths, replaced by a strictly lower (White) or strictly
\* higher (Black) score, the move replaced then and on an equal score that
\* the tie-break prefers.
RunningBest ==
  LET run[k \in 0 .. Len(Log)] ==
        IF k = 0
        THEN [best_move |-> Nothing,
              best_score |-> IF Searcher = White THEN I32_MAX ELSE I32_MIN]
        ELSE LET prev == run[k - 1]
                 e == Log[k]
             IN IF (Searcher = White /\ e.score < prev.best_score)
                   \/ (Searcher = Black /\ e.score > prev.best_score)
                THEN [best_move |-> Some(e.mv), best_score |-> e.score]
                ELSE IF e.score = prev.best_score /\ prev.best_move # Nothing
                        /\ more_criteria(before, e.mv, unwrap(prev.best_move))
                THEN [prev EXCEPT !.best_move = Some(e.mv)]
                ELSE prev
  IN run[Len(Log)]

\* The log holds every (depth, move) pair, depth 1 .. MAX_DEPTH, in order.
LogIsEveryDepthAndMove ==
  LET moves == get_valid_moves(before, Searcher)
      n == Len(moves)
  IN /\ Len(Log) = MAX_DEPTH * n
     /\ \A d \in 1 .. MAX_DEPTH : \A k \in 1 .. n :
          /\ Log[(d - 1) * n + k].depth = d
          /\ Log[(d - 1) * n + k].mv = moves[k]

\* C11: find_best_move scores every move at every depth 1 .. 4 and returns
\* the move left by one running best over all of them (strict improvement,
\* or equal score and the tie-break); that move has, at some depth, the
\* least (White) or greatest (Black) of all the scores computed.
C11_RunningBestAcrossDepths ==
  (call.op = "find_best_move" /\ pc # "panic") =>
    /\ LogIsEveryDepthAndMove
    /\ best_move = RunningBest.best_move
    /\ best_move # Nothing =>
         \E k \in 1 .. Len(Log) :
           /\ Log[k].mv = unwrap(best_move)
           /\ Log[k].depth \in 1 .. MAX_DEPTH
           /\ Log[k].score = IF Searcher = White THEN LeastScore
                                                 ELSE GreatestScore

\* A find_best_move whose returned move does not have the best score at
\* depth 4, only at a smaller depth.
C11_BestAtSmallerDepthOnly ==
  /\ call.op = "find_best_move"
  /\ best_move # Nothing
  /\ \A k \in 1 .. Len(Log) :
       (Log[k].mv = unwrap(best_move) /\ Log[k].depth = MAX_DEPTH) =>
         Log[k].score # (IF Searcher = White THEN LeastScore ELSE GreatestScore)

\* The pairs (mv1, mv2) the last find_best_move passed to more_criteria, in
\* order: the candidate whose score equals the running best score, and the
\* best move at that moment.
TieBreaks ==
  LET run[k \in 0 .. Len(Log)] ==
        IF k = 0
        THEN [best_move |-> Nothing, pairs |-> << >>,
              best_score |-> IF Searcher = White THEN I32_MAX ELSE I32_MIN]
        ELSE LET prev == run[k - 1]
                 e == Log[k]
             IN IF (Searcher = White /\ e.score < prev.best_score)
                   \/ (Searcher = Black /\ e.score > prev.best_score)
                THEN [prev EXCEPT !.best_move = Some(e.mv), !.best_score = e.score]
                ELSE IF e.score = prev.best_score /\ prev.best_move # Nothing
                THEN [prev EXCEPT
                        !.pairs = Append(@, <<e.mv, unwrap(prev.best_move)>>),
                        !.best_move = IF more_criteria(before, e.mv, unwrap(@))
                                      THEN Some(e.mv) ELSE @]
                ELSE prev
  IN run[Len(Log)].pairs

Central(pos) == pos.row \in {3, 4} /\ pos.col \in {3, 4}

\* The number of pseudo-legal moves of the side to move once mv is applied.
MobilityAfter(b, mv) ==
  Len(get_valid_moves(make_move(b, mv.from, mv.to), opposite(b.turn)))

\* What C12 says more_criteria(mv1, mv2) returns on the board b.
Preferred(b, mv1, mv2) ==
  \/ Central(mv1.to) /\ ~Central(mv2.to)
  \/ /\ Central(mv1.to) = Central(mv2.to)
     /\ MobilityAfter(b, mv1) > MobilityAfter(b, mv2)

\* C12: more_criteria(mv1, mv2) is true iff mv1 alone goes to a center
\* square, or both or neither do and the side to move after mv1 has strictly
\* more pseudo-legal moves than after mv2; it is false for mv1 = mv2; the
\* board is as it was.  Checked for every pair find_best_move passed to it
\* and for every pair of moves of the searched board.
C12_MoreCriteriaCenterThenMobility ==
  call.op = "find_best_move" =>
    LET moves == get_valid_moves(before, Searcher)
    IN /\ \A k \in 1 .. Len(TieBreaks) :
            more_criteria(before, TieBreaks[k][1], TieBreaks[k][2])
              = Preferred(before, TieBreaks[k][1], TieBreaks[k][2])
       /\ \A i \in 1 .. Len(moves) : \A j \in 1 .. Len(moves) :
            /\ more_criteria(before, moves[i], moves[j])
                 = Preferred(before, moves[i], moves[j])
            /\ ~more_criteria(before, moves[i], moves[i])
       /\ TieBreaks # << >> => board = before

\* A find_best_move that asked the tie-break about a move against itself,
\* about a center move against another, and about two different moves that
\* mobility decided.
C12_TieBreakAsked ==
  /\ call.op = "find_best_move"
  /\ \E k \in 1 .. Len(TieBreaks) : TieBreaks[k][1] = TieBreaks[k][2]
  /\ \E k \in 1 .. Len(TieBreaks) :
       Central(TieBreaks[k][1].to) # Central(TieBreaks[k][2].to)
  /\ \E k \in 1 .. Len(TieBreaks) :
       /\ Central(TieBreaks[k][1].to) = Central(TieBreaks[k][2].to)
       /\ more_criteria(before, TieBreaks[k][1], TieBreaks[k][2])

BlackCount(b) ==
  Cardinality({p \in Idx \X Idx : b.squares[p[1]][p[2]].color = Black})

\* The recursion of quiescence_search entered on self, with no cut-off: every
\* retained move is followed.  depth is the greatest number of nested calls
\* below the entry; captures tells whether, at every level, the retained
\* moves are exactly the capturing moves, each made by a White piece onto a
\* Black one, and leave one Black piece fewer.
RECURSIVE quiescence_tree(_)
quiescence_tree(self) ==
  LET all_moves == get_valid_moves(self, current_turn(self))
      valid_moves == SelectSeq(all_moves, LAMBDA mv : retained(self, mv))
      below[k \in 0 .. Len(valid_moves)] ==
        IF k = 0
        THEN [depth |-> 0,
              captures |-> \A n \in 1 .. Len(all_moves) :
                             retained(self, all_moves[n])
                               <=> all_moves[n].captured # None]
        ELSE LET mv == valid_moves[k]
                 new_board == make_move(Clone(self), mv.from, mv.to)
                 r == quiescence_tree(new_board)
                 prev == below[k - 1]
             IN [depth |-> IF r.depth + 1 > prev.depth THEN r.depth + 1
                                                       ELSE prev.depth,
                 captures |-> /\ prev.captures
                              /\ r.captures
                              /\ mv.captured # None
                              /\ At(self, mv.from).color = White
                              /\ At(self, mv.to).color = Black
                              /\ BlackCount(new_board) = BlackCount(self) - 1]
  IN below[Len(valid_moves)]

QuiescenceBounded(b) ==
  LET t == quiescence_tree(b)
  IN t.captures /\ t.depth <= BlackCount(b)

\* Every board of the search tree of the given depth below self, each move
\* of get_valid_moves followed: whether quiescence is bounded on all of them
\* (bounded), and the deepest quiescence recursion among them (deepest).
RECURSIVE search_tree(_, _, _)
search_tree(self, depth, is_maximizing) ==
  LET here == quiescence_tree(self)
      start == [bounded |-> here.captures /\ here.depth <= BlackCount(self),
                deepest |-> here.depth]
  IN IF depth = 0
     THEN start
     ELSE LET valid_moves == get_valid_moves(self, IF is_maximizing THEN Black ELSE White)
              upto[k \in 0 .. Len(valid_moves)] ==
                IF k = 0
                THEN start
                ELSE LET mv == valid_moves[k]
                         r == search_tree(make_move(Clone(self), mv.from, mv.to),
                                          depth - 1, ~is_maximizing)
                         prev == upto[k - 1]
                     IN [bounded |-> prev.bounded /\ r.bounded,
                         deepest |-> IF r.deepest > prev.deepest THEN r.deepest
                                                                 ELSE prev.deepest]
          IN upto[Len(valid_moves)]

\* The search tree of the k-th search of the last find_best_move.
TreeOfLogged(k) ==
  search_tree(make_move(Clone(before), Log[k].mv.from, Log[k].mv.to),
              Log[k].depth, before.turn = White)

\* C13: quiescence_search recurses on capturing moves only, made by White
\* whatever the turn of the board, so that each level removes one Black
\* piece and the recursion is at most as deep as the number of Black pieces
\* at entry: on the board find_best_move was called on and on every board of
\* its search trees of depth 1 .. 4, which it searched to the end.
C13_QuiescenceDepthBoundedByBlackPieces ==
  call.op = "find_best_move" =>
    /\ QuiescenceBounded(before)
    /\ \A k \in 1 .. Len(Log) : TreeOfLogged(k).bounded
    /\ trace.calls >= Len(Log)
    /\ pc \in {"apply", "done", "panic"}

\* A find_best_move one of whose searches has a board on which the
\* quiescence recursion is two captures deep.
C13_QuiescenceRecursedTwice ==
  /\ call.op = "find_best_move"
  /\ \E k \in 1 .. Len(Log) : TreeOfLogged(k).deepest >= 2

\* C14: in every minimax call made during a find_best_move, whichever side
\* is to move at the root and whatever the depth in 1 .. 4, the color the
\* call chooses from is_maximizing (Black when maximizing, White otherwise)
\* is the turn of the board it runs on.
C14_SideFromFlagIsBoardTurn ==
  call.op = "find_best_move" => trace.off = 0

\* A find_best_move for Black with searches of every depth 1 .. 4 and
\* minimax calls below the calls of find_best_move itself.
C14_SearchedBelowRoot ==
  /\ call.op = "find_best_move"
  /\ before.turn = Black
  /\ \A d \in 1 .. MAX_DEPTH : \E k \in 1 .. Len(Log) : Log[k].depth = d
  /\ trace.calls > 2 * Len(Log)

\* The value best_score starts with in the last find_best_move.
Sentinel == IF Searcher = White THEN I32_MAX ELSE I32_MIN

\* C15: find_best_move never reaches best_move.unwrap() with no best move;
\* it returns a move of get_valid_moves(turn) when there is one and None
\* exactly when there is none; the first score computed, at depth 1, is not
\* the value best_score starts with.
C15_SomeMoveUnlessNoMoves ==
  call.op = "find_best_move" =>
    LET moves == get_valid_moves(before, Searcher)
    IN /\ pc # "panic"
       /\ moves # << >> =>
            /\ best_move # Nothing
            /\ contains(moves, unwrap(best_move))
            /\ Log[1].depth = 1
            /\ Log[1].mv = moves[1]
            /\ Log[1].score # Sentinel
       /\ best_move = Nothing <=> moves = << >>

\* A find_best_move that returned a move although a later score equals the
\* value best_score starts with: the equal-score branch was not reached with
\* that value while no move was held.
C15_SentinelScoredLater ==
  /\ call.op = "find_best_move"
  /\ best_move # Nothing
  /\ \E k \in 2 .. Len(Log) : Log[k].score = Sentinel

=============================================================================
